---------------------------- MODULE Spec2Model ----------------------------
(* A model of src/index.ts: the MCP server built by createServer, its six   *)
(* tools, the code-review prompt and the server-info resource.              *)
(*                                                                          *)
(* The module is ASCII only, so each Korean literal of the source is        *)
(* written as its English gloss and each emoji as a word in parentheses;    *)
(* the comment next to a gloss names the source line of the original.       *)
(*                                                                          *)
(* A JavaScript string is a sequence of chunks of characters; a string the  *)
(* code parses (parseFloat) has one character per chunk.  A text built by   *)
(* a template literal or by += is the sequence of its pieces, in order:     *)
(* one piece per literal fragment and one per interpolated value.           *)
EXTENDS Integers, Sequences, FiniteSets, TLC

VARIABLES
    config,     \* the configuration object createServer was given
    env,        \* process.env
    hfToken,    \* the token createServer resolved, or undefined
    hfClient,   \* the InferenceClient, or null
    tools,      \* the names registered by registerTool, in order
    pc,         \* idle | awaiting | returned | rejected | threw
    op,         \* the operation being invoked
    args,       \* its raw arguments
    input,      \* its validated input
    entered,    \* whether the handler body has been entered
    outbound,   \* the outbound calls (fetch, textToImage) the invocation issued
    request,    \* the outbound call in flight
    settled,    \* how the outbound call settled
    responses,  \* what the invocation returned, in order
    escaped     \* whether an exception left the handler

vars == <<config, env, hfToken, hfClient, tools, pc, op, args, input, entered, outbound,
          request, settled, responses, escaped>>

-----------------------------------------------------------------------------
(* Bounds of the model.                                                     *)

\* calculator operands range over -MaxNum .. MaxNum
MaxNum == 2
\* new Date() ranges over 0 .. MaxClock hours after 2025-12-15T00:00Z
MaxClock == 1
\* the daily series of a forecast response has 0 .. MaxDays entries
MaxDays == 17
\* digits after the decimal point kept when a non-integer number is printed
FracDigits == 4
\* the current weather code of a forecast response ranges over -1 .. MaxCode
MaxCode == 100

-----------------------------------------------------------------------------
(* JavaScript values.                                                       *)

\* a number is NaN, or p/q in lowest terms with q > 0, or +-Infinity (q = 0)
NaN == [nan |-> TRUE, p |-> 0, q |-> 1]

Abs(n) == IF n < 0 THEN -n ELSE n

RECURSIVE GCD(_, _)
GCD(a, b) == IF b = 0 THEN a ELSE GCD(b, a % b)

Num(p, q) ==
    IF q = 0
    THEN IF p = 0 THEN NaN
         ELSE [nan |-> FALSE, p |-> IF p > 0 THEN 1 ELSE -1, q |-> 0]
    ELSE LET g == GCD(Abs(p), Abs(q))
             s == IF q < 0 THEN -1 ELSE 1
         IN  [nan |-> FALSE, p |-> (s * p) \div g, q |-> (s * q) \div g]

IntNum(n) == Num(n, 1)

NumAdd(a, b) == IF a.nan \/ b.nan THEN NaN ELSE Num(a.p * b.q + b.p * a.q, a.q * b.q)
NumSub(a, b) == IF a.nan \/ b.nan THEN NaN ELSE Num(a.p * b.q - b.p * a.q, a.q * b.q)
NumMul(a, b) == IF a.nan \/ b.nan THEN NaN ELSE Num(a.p * b.p, a.q * b.q)
NumDiv(a, b) == IF a.nan \/ b.nan THEN NaN ELSE Num(a.p * b.q, a.q * b.p)

\* a < b and a <= b; any comparison with NaN is false
NumLt(a, b) == ~a.nan /\ ~b.nan /\ a.p * b.q < b.p * a.q
NumLe(a, b) == ~a.nan /\ ~b.nan /\ a.p * b.q <= b.p * a.q
IsInteger(a) == ~a.nan /\ a.q = 1

Digit == <<"0", "1", "2", "3", "4", "5", "6", "7", "8", "9">>

RECURSIVE NatToString(_)
NatToString(n) ==
    IF n < 10 THEN Digit[n + 1] ELSE NatToString(n \div 10) \o Digit[(n % 10) + 1]

RECURSIVE Fraction(_, _, _)
Fraction(rem, q, k) ==
    IF rem = 0 \/ k = 0 THEN ""
    ELSE Digit[((rem * 10) \div q) + 1] \o Fraction((rem * 10) % q, q, k - 1)

\* Number::toString, the conversion a template literal applies to a number.
\* A non-terminating expansion is cut after FracDigits digits (the source
\* prints up to 17 significant digits).
NumberToString(x) ==
    IF x.nan THEN "NaN"
    ELSE IF x.q = 0 THEN (IF x.p > 0 THEN "Infinity" ELSE "-Infinity")
    ELSE (IF x.p < 0 THEN "-" ELSE "")
         \o NatToString(Abs(x.p) \div x.q)
         \o (IF x.q = 1 THEN ""
             ELSE "." \o Fraction(Abs(x.p) % x.q, x.q, FracDigits))

\* a string as one piece of text
RECURSIVE Join(_)
Join(chars) == IF chars = <<>> THEN "" ELSE Head(chars) \o Join(Tail(chars))

Range(s) == {s[i] : i \in DOMAIN s}

\* JSON / JavaScript values, tagged by typeof
Undefined == [t |-> "undefined"]
JNull == [t |-> "null"]
JNum(n) == [t |-> "number", num |-> n]
JStr(chars) == [t |-> "string", chars |-> chars]
JArr(items) == [t |-> "array", items |-> items]
\* an object is the sequence of its own properties, in insertion order
JObj(props) == [t |-> "object", props |-> props]
P(k, v) == [k |-> k, v |-> v]

HasOwn(obj, key) == obj.t = "object" /\ \E i \in DOMAIN obj.props : obj.props[i].k = key

\* obj.key for a value that is neither null nor undefined
Get(obj, key) ==
    IF HasOwn(obj, key)
    THEN obj.props[CHOOSE i \in DOMAIN obj.props : obj.props[i].k = key].v
    ELSE Undefined

\* reading a property of null or undefined throws a TypeError
Nullish(v) == v.t \in {"null", "undefined"}

\* ToBoolean, as used by ||, ! and the conditional operator
Truthy(v) ==
    CASE v.t \in {"undefined", "null"} -> FALSE
      [] v.t = "string" -> v.chars # <<>>
      [] v.t = "number" -> ~v.num.nan /\ v.num.p # 0
      [] OTHER -> TRUE

\* the ToString conversion a template literal applies, giving one piece
RECURSIVE JSToString(_)
RECURSIVE JoinItems(_)
JoinItems(items) ==
    IF items = <<>> THEN ""
    ELSE (IF Nullish(Head(items)) THEN "" ELSE JSToString(Head(items)))
         \o (IF Tail(items) = <<>> THEN "" ELSE "," \o JoinItems(Tail(items)))
JSToString(v) ==
    CASE v.t = "undefined" -> "undefined"
      [] v.t = "null" -> "null"
      [] v.t = "string" -> Join(v.chars)
      [] v.t = "number" -> NumberToString(v.num)
      [] v.t = "array" -> JoinItems(v.items)
      [] OTHER -> "[object Object]"

-----------------------------------------------------------------------------
(* Response Envelope Builder and the weather-code table.                    *)

TextItem(text) == [type |-> "text", text |-> text]

\* the helper with a mirror that lost its item
createTextResponseEmptyMirror(text) ==
    [content |-> <<TextItem(text)>>, structuredContent |-> [content |-> <<>>]]

createTextResponse(text) ==
    [content |-> <<TextItem(text)>>,
     structuredContent |-> [content |-> <<TextItem(text)>>]]

\* the object literal returned by generate-image on success
imageResponse(base64Data) ==
    [content |-> <<[type |-> "image",
                    data |-> base64Data,
                    mimeType |-> "image/png",
                    annotations |-> [audience |-> <<"user">>, priority |-> Num(9, 10)]]>>]

\* WEATHER_CODES: the keys of a Record<number, string> are the decimal
\* strings of the codes.  Each description is the ASCII gloss of the Korean
\* text on the source line of its code (lines 30-57).
Desc(s) == JStr(<<s>>)
WEATHER_CODES ==
    JObj(<<P("0", Desc("clear")), P("1", Desc("mainly clear")),
           P("2", Desc("partly cloudy")), P("3", Desc("overcast")),
           P("45", Desc("fog")), P("48", Desc("rime fog")),
           P("51", Desc("light drizzle")), P("53", Desc("moderate drizzle")),
           P("55", Desc("dense drizzle")), P("56", Desc("light freezing drizzle")),
           P("57", Desc("dense freezing drizzle")), P("61", Desc("slight rain")),
           P("63", Desc("moderate rain")), P("65", Desc("heavy rain")),
           P("66", Desc("light freezing rain")), P("67", Desc("heavy freezing rain")),
           P("71", Desc("slight snow")), P("73", Desc("moderate snow")),
           P("75", Desc("heavy snow")), P("77", Desc("snow grains")),
           P("80", Desc("slight showers")), P("81", Desc("moderate showers")),
           P("82", Desc("violent showers")), P("85", Desc("slight snow showers")),
           P("86", Desc("heavy snow showers")), P("95", Desc("thunderstorm")),
           P("96", Desc("thunderstorm with slight hail")),
           P("99", Desc("thunderstorm with heavy hail"))>>)

\* the template literal of line 61; "code " glosses the Korean prefix
CodeLabel(code) == "code " \o JSToString(code)

\* the lookup guarded by the code instead of by the entry found
getWeatherDescriptionByCode(code) ==
    IF Truthy(code) THEN JSToString(Get(WEATHER_CODES, JSToString(code)))
    ELSE CodeLabel(code)

\* WEATHER_CODES[code] || `... ${code}`
getWeatherDescription(code) ==
    LET found == Get(WEATHER_CODES, JSToString(code))
    IN  IF Truthy(found) THEN JSToString(found) ELSE CodeLabel(code)

-----------------------------------------------------------------------------
(* Schema Validator: the zod schemas the tools declare, applied by the      *)
(* host runtime to the raw arguments before the handler is called.          *)

Valid(value) == [ok |-> TRUE, value |-> value]
Invalid(field) == [ok |-> FALSE, field |-> field]

\* z.string()
zString(v) == v.t = "string"
\* z.number()
zNumber(v) == v.t = "number" /\ ~v.num.nan
\* z.number().min(lo).max(hi): both bounds inclusive
zRange(v, lo, hi) == zNumber(v) /\ NumLe(IntNum(lo), v.num) /\ NumLe(v.num, IntNum(hi))
\* z.enum(options)
zEnum(v, options) == v.t = "string" /\ Join(v.chars) \in options
\* .optional().default(d): the default stands in for an absent value only
zDefault(v, d) == IF v.t = "undefined" THEN d ELSE v

greetInputSchema(raw) ==
    LET name == Get(raw, "name")
        language == zDefault(Get(raw, "language"), JStr(<<"en">>))
    IN  IF ~zString(name) THEN Invalid("name")
        ELSE IF ~zEnum(language, {"ko", "en"}) THEN Invalid("language")
        ELSE Valid([name |-> name, language |-> language])

calculatorInputSchema(raw) ==
    LET num1 == Get(raw, "num1")
        num2 == Get(raw, "num2")
        operator == Get(raw, "operator")
    IN  IF ~zNumber(num1) THEN Invalid("num1")
        ELSE IF ~zNumber(num2) THEN Invalid("num2")
        ELSE IF ~zEnum(operator, {"+", "-", "*", "/"}) THEN Invalid("operator")
        ELSE Valid([num1 |-> num1, num2 |-> num2, operator |-> operator])

getTimeInputSchema(raw) ==
    LET timezone == Get(raw, "timezone")
    IN  IF ~zString(timezone) THEN Invalid("timezone")
        ELSE Valid([timezone |-> timezone])

geocodeInputSchema(raw) ==
    LET address == Get(raw, "address")
    IN  IF ~zString(address) THEN Invalid("address")
        ELSE Valid([address |-> address])

\* the schema of get-weather with .catch(7) in place of .default(7)
getWeatherInputSchemaCatching(raw) ==
    LET latitude == Get(raw, "latitude")
        longitude == Get(raw, "longitude")
        given == Get(raw, "forecastDays")
        forecastDays ==
            IF zRange(given, 1, 16) /\ IsInteger(given.num) THEN given
            ELSE JNum(IntNum(7))
    IN  IF ~zRange(latitude, -90, 90) THEN Invalid("latitude")
        ELSE IF ~zRange(longitude, -180, 180) THEN Invalid("longitude")
        ELSE Valid([latitude |-> latitude, longitude |-> longitude,
                    forecastDays |-> forecastDays])

getWeatherInputSchema(raw) ==
    LET latitude == Get(raw, "latitude")
        longitude == Get(raw, "longitude")
        forecastDays == zDefault(Get(raw, "forecastDays"), JNum(IntNum(7)))
    IN  IF ~zRange(latitude, -90, 90) THEN Invalid("latitude")
        ELSE IF ~zRange(longitude, -180, 180) THEN Invalid("longitude")
        ELSE IF ~(zRange(forecastDays, 1, 16) /\ IsInteger(forecastDays.num))
             THEN Invalid("forecastDays")
        ELSE Valid([latitude |-> latitude, longitude |-> longitude,
                    forecastDays |-> forecastDays])

generateImageInputSchema(raw) ==
    LET prompt == Get(raw, "prompt")
    IN  IF ~zString(prompt) THEN Invalid("prompt")
        ELSE Valid([prompt |-> prompt])

-----------------------------------------------------------------------------
(* Handlers without an outbound call.                                       *)

\* line 91 is the Korean greeting "Hello, <name>!", whose honorific suffix
\* follows the name; line 92 holds a waving-hand emoji, written (wave) here
greet(in) ==
    LET greeting ==
            IF Join(in.language.chars) = "ko"
            THEN <<"Hello(ko), ", JSToString(in.name), "(nim)!">>
            ELSE <<"Hey there, ", JSToString(in.name), "! (wave) Nice to meet you!">>
    IN  createTextResponse(greeting)

\* line 130, glossed from the Korean
DivisionByZeroText == <<"Error: cannot divide by 0.">>

\* calculator without the check of the divisor
calculatorUnchecked(in) ==
    LET num1 == in.num1.num
        num2 == in.num2.num
        operator == Join(in.operator.chars)
        show(sign, result) ==
            <<NumberToString(num1), sign, NumberToString(num2), " = ",
              NumberToString(result)>>
        resultText ==
            CASE operator = "+" -> show(" + ", NumAdd(num1, num2))
              [] operator = "-" -> show(" - ", NumSub(num1, num2))
              [] operator = "*" -> show(" * ", NumMul(num1, num2))
              [] operator = "/" -> show(" / ", NumDiv(num1, num2))
              [] OTHER -> <<"">>
    IN  createTextResponse(resultText)

calculator(in) ==
    LET num1 == in.num1.num
        num2 == in.num2.num
        operator == Join(in.operator.chars)
        show(sign, result) ==
            <<NumberToString(num1), sign, NumberToString(num2), " = ",
              NumberToString(result)>>
        resultText ==
            CASE operator = "+" -> show(" + ", NumAdd(num1, num2))
              [] operator = "-" -> show(" - ", NumSub(num1, num2))
              [] operator = "*" -> show(" * ", NumMul(num1, num2))
              [] operator = "/" ->
                    IF num2 = IntNum(0) THEN DivisionByZeroText
                    ELSE show(" / ", NumDiv(num1, num2))
              [] OTHER -> <<"">>
    IN  createTextResponse(resultText)

\* the time zones Intl.DateTimeFormat accepts, with their offset from UTC in
\* hours; any other name makes the constructor throw a RangeError
TimeZoneOffset ==
    [tz \in {"Asia/Seoul", "UTC", "America/New_York"} |->
        CASE tz = "Asia/Seoul" -> 9 [] tz = "UTC" -> 0 [] OTHER -> -5]

Pad2(n) == IF n < 10 THEN "0" \o NatToString(n) ELSE NatToString(n)

\* formatter.format(now) in ko-KR with 2-digit fields and hour12: false;
\* now counts the hours since 2025-12-15T00:00Z
formatTime(tz, now) ==
    LET local == now + TimeZoneOffset[tz]
    IN  "2025. 12. " \o Pad2(15 + (local \div 24)) \o ". "
        \o Pad2(local % 24) \o ":00:00"

\* a handler's try block or body ends by returning a value or by throwing
Return(value) == [type |-> "return", value |-> value]
Throw(error) == [type |-> "throw", error |-> error]

\* a handler suspended at an await of the outbound call it has just issued
Await(req) == [type |-> "await", request |-> req]

\* a thrown Error object, and a thrown value that is no Error
Error(name, message) == [isError |-> TRUE, name |-> name, message |-> message]
NonError(value) == [isError |-> FALSE, value |-> value]

\* error instanceof Error ? error.message : String(error)
errorText(error) == IF error.isError THEN error.message ELSE JSToString(error.value)

\* the try block of get-time, lines 155-168; the text of line 168 is glossed
\* from the Korean
getTimeTry(in, now) ==
    LET timezone == JSToString(in.timezone)
    IN  IF timezone \notin DOMAIN TimeZoneOffset
        THEN Throw(Error("RangeError", "Invalid time zone specified: " \o timezone))
        ELSE Return(createTextResponse(<<timezone, " current time: ",
                                         formatTime(timezone, now)>>))

\* the catch block of get-time, line 170, glossed from the Korean
getTimeCatch(in) ==
    Return(createTextResponse(<<"Error: invalid time zone. (",
                                JSToString(in.timezone), ")">>))

getTime(in, now) ==
    LET tried == getTimeTry(in, now)
    IN  IF tried.type = "throw" THEN getTimeCatch(in) ELSE tried

-----------------------------------------------------------------------------
(* Outbound calls and the handlers that await one.                          *)

\* Response.ok
ok(response) == response.status \in 200 .. 299

\* await response.json(): the parsed body, or a SyntaxError
json(response) ==
    IF response.body.parses THEN Return(response.body.json)
    ELSE Throw(Error("SyntaxError", "Unexpected token < in JSON at position 0"))

\* the check of lines 197-199 and 262-264
httpError(response) ==
    Error("Error", "HTTP error! status: " \o NatToString(response.status))

\* reading property key of a null or undefined value
typeError(v, key) ==
    Error("TypeError",
          "Cannot read properties of " \o v.t \o " (reading '" \o key \o "')")

IsDigit(c) == c \in Range(Digit)
DigitValue(c) == CHOOSE d \in 0 .. 9 : Digit[d + 1] = c

RECURSIVE LeadingDigits(_)
LeadingDigits(chars) ==
    IF chars # <<>> /\ IsDigit(Head(chars))
    THEN <<Head(chars)>> \o LeadingDigits(Tail(chars))
    ELSE <<>>

RECURSIVE DigitsValue(_)
DigitsValue(ds) ==
    IF ds = <<>> THEN 0
    ELSE 10 * DigitsValue(SubSeq(ds, 1, Len(ds) - 1)) + DigitValue(ds[Len(ds)])

RECURSIVE Pow10(_)
Pow10(k) == IF k = 0 THEN 1 ELSE 10 * Pow10(k - 1)

RECURSIVE SkipSpaces(_)
SkipSpaces(chars) ==
    IF chars # <<>> /\ Head(chars) \in {" ", "\n", "\t"}
    THEN SkipSpaces(Tail(chars)) ELSE chars

Drop(chars, n) == SubSeq(chars, n + 1, Len(chars))

\* parseFloat of a string: the longest decimal prefix, or NaN
parseFloatChars(chars) ==
    LET trimmed == SkipSpaces(chars)
        signed == trimmed # <<>> /\ Head(trimmed) \in {"-", "+"}
        sign == IF signed /\ Head(trimmed) = "-" THEN -1 ELSE 1
        body == IF signed THEN Tail(trimmed) ELSE trimmed
        whole == LeadingDigits(body)
        rest == Drop(body, Len(whole))
        frac == IF rest # <<>> /\ Head(rest) = "." THEN LeadingDigits(Tail(rest)) ELSE <<>>
    IN  IF whole = <<>> /\ frac = <<>> THEN NaN
        ELSE Num(sign * (DigitsValue(whole) * Pow10(Len(frac)) + DigitsValue(frac)),
                 Pow10(Len(frac)))

\* parseFloat(v): v is converted to a string first
parseFloat(v) ==
    CASE v.t = "number" -> v.num
      [] v.t = "string" -> parseFloatChars(v.chars)
      [] v.t = "array" /\ v.items # <<>> /\ v.items[1].t = "number" -> v.items[1].num
      [] v.t = "array" /\ v.items # <<>> /\ v.items[1].t = "string" ->
            parseFloatChars(v.items[1].chars)
      [] OTHER -> NaN

\* a lone surrogate, which encodeURIComponent refuses
LoneSurrogate == "<U+D800>"

EncodeChunk(c) ==
    CASE c = " " -> "%20" [] c = "," -> "%2C" [] c = "\n" -> "%0A"
      [] c = "<" -> "%3C" [] c = ">" -> "%3E" [] c = "/" -> "%2F"
      [] OTHER -> c

RECURSIVE EncodeChunks(_)
EncodeChunks(chars) ==
    IF chars = <<>> THEN "" ELSE EncodeChunk(Head(chars)) \o EncodeChunks(Tail(chars))

encodeURIComponent(str) ==
    IF LoneSurrogate \in Range(str.chars)
    THEN Throw(Error("URIError", "URI malformed"))
    ELSE Return(EncodeChunks(str.chars))

\* lines 189-195
geocodeRequest(encodedAddress) ==
    [kind |-> "fetch",
     url |-> <<"https://nominatim.openstreetmap.org/search?q=", encodedAddress,
               "&format=jsonv2&limit=1&addressdetails=1">>,
     headers |-> <<P("User-Agent", "MCP-Geocode-Tool/1.0")>>]


\* the try block of geocode from the settling of its fetch, lines 191-214;
\* the texts of lines 204 and 213 are glossed from the Korean
geocodeTry(in, outcome) ==
    IF outcome.kind = "rejected" THEN Throw(outcome.error)
    ELSE IF ~ok(outcome) THEN Throw(httpError(outcome))
    ELSE IF json(outcome).type = "throw" THEN json(outcome)
    ELSE LET data == json(outcome).value
         IN  IF data.t # "array" \/ Len(data.items) = 0
             THEN Return(createTextResponse(
                      <<"Address not found: ", JSToString(in.address)>>))
             ELSE LET result == data.items[1]
                      lat == NumberToString(parseFloat(Get(result, "lat")))
                      lon == NumberToString(parseFloat(Get(result, "lon")))
                      displayName ==
                          IF Truthy(Get(result, "display_name"))
                          THEN Get(result, "display_name") ELSE in.address
                  IN  IF Nullish(result) THEN Throw(typeError(result, "lat"))
                      ELSE Return(createTextResponse(
                               <<"Address: ", JSToString(displayName),
                                 "\nLatitude: ", lat, "\nLongitude: ", lon,
                                 "\nCoordinates: (", lat, ", ", lon, ")">>))

\* the catch block of geocode, lines 215-219, glossed from the Korean
geocodeCatch(error) ==
    Return(createTextResponse(
        <<"Error: a problem occurred while looking up the address. ", errorText(error)>>))

\* geocode from its entry to its fetch, lines 187-195
geocodeStart(in) ==
    LET encoded == encodeURIComponent(in.address)
    IN  IF encoded.type = "throw" THEN geocodeCatch(encoded.error)
        ELSE Await(geocodeRequest(encoded.value))

\* geocode fetching once more after a failure
geocodeRetrying(in, outcome) ==
    LET tried == geocodeTry(in, outcome)
    IN  IF tried.type = "throw" THEN geocodeStart(in) ELSE tried

\* geocode from the settling of its fetch to its end
geocode(in, outcome) ==
    LET tried == geocodeTry(in, outcome)
    IN  IF tried.type = "throw" THEN geocodeCatch(tried.error) ELSE tried

\* lines 251-258: the URL with its search parameters
getWeatherRequest(in) ==
    [kind |-> "fetch",
     url |-> <<"https://api.open-meteo.com/v1/forecast",
               P("latitude", NumberToString(in.latitude.num)),
               P("longitude", NumberToString(in.longitude.num)),
               P("current_weather", "true"),
               P("hourly", "temperature_2m,precipitation,wind_speed_10m,weather_code"),
               P("daily", "temperature_2m_max,temperature_2m_min,precipitation_sum,weather_code"),
               P("forecast_days", NumberToString(in.forecastDays.num)),
               P("timezone", "auto")>>,
     headers |-> <<>>]

\* value[i] for an index i counted from 0
Index(value, i) ==
    IF value.t = "array" /\ i + 1 \in DOMAIN value.items THEN value.items[i + 1]
    ELSE Undefined

\* value.length
Length(value) ==
    CASE value.t = "array" -> JNum(IntNum(Len(value.items)))
      [] value.t = "string" -> JNum(IntNum(Len(value.chars)))
      [] OTHER -> Get(value, "length")

\* Math.min(a, b) of a number a and any value b
mathMin(a, b) ==
    IF b.t # "number" \/ b.num.nan THEN NaN
    ELSE IF NumLt(b.num, a) THEN b.num ELSE a

Weekday == <<"Mon", "Tue", "Wed", "Thu", "Fri", "Sat", "Sun">>

\* new Date(v).toLocaleDateString('ko-KR', {month: 'short', day: 'numeric',
\* weekday: 'short'}) for the dates of December 2025, written
\* <<"2025-12-", dd>>; the 15th is a Monday.  Any other value read here is
\* an invalid date, which the method prints without throwing.
formatDate(v) ==
    IF /\ v.t = "string"
       /\ Len(v.chars) = 2
       /\ v.chars[1] = "2025-12-"
       /\ \E d \in 1 .. 31 : Pad2(d) = v.chars[2]
    THEN LET d == CHOOSE d \in 1 .. 31 : Pad2(d) = v.chars[2]
         IN  "12(month) " \o NatToString(d) \o "(day) ("
             \o Weekday[((d - 15) % 7) + 1] \o ")"
    ELSE "Invalid Date"

\* one pass of the loop body, lines 279-288, glossed from the Korean
forecastBlock(daily, i) ==
    <<"\n", formatDate(Index(Get(daily, "time"), i)), ":\n",
      "  High: ", JSToString(Index(Get(daily, "temperature_2m_max"), i)),
      "(deg)C / Low: ", JSToString(Index(Get(daily, "temperature_2m_min"), i)), "(deg)C\n",
      "  Precipitation: ", JSToString(Index(Get(daily, "precipitation_sum"), i)), "mm\n",
      "  Weather: ", getWeatherDescription(Index(Get(daily, "weather_code"), i)), "\n">>

\* the series the loop body indexes, in the order it reads them
DailySeries == <<"temperature_2m_max", "temperature_2m_min", "precipitation_sum", "weather_code">>

\* the loop running over the whole series, whatever forecastDays is
RECURSIVE forecastLoopWholeSeries(_, _, _, _)
forecastLoopWholeSeries(daily, forecastDays, i, resultText) ==
    IF Nullish(daily) THEN Throw(typeError(daily, "time"))
    ELSE IF Nullish(Get(daily, "time")) THEN Throw(typeError(Get(daily, "time"), "length"))
    ELSE IF ~NumLt(IntNum(i), Length(Get(daily, "time")).num)
         THEN Return(resultText)
    ELSE forecastLoopWholeSeries(daily, forecastDays, i + 1,
                                 resultText \o forecastBlock(daily, i))

\* the for loop of lines 278-289 from index i on: the text, or what it threw
RECURSIVE forecastLoop(_, _, _, _)
forecastLoop(daily, forecastDays, i, resultText) ==
    IF Nullish(daily) THEN Throw(typeError(daily, "time"))
    ELSE IF Nullish(Get(daily, "time")) THEN Throw(typeError(Get(daily, "time"), "length"))
    ELSE IF ~NumLt(IntNum(i), mathMin(forecastDays, Length(Get(daily, "time"))))
         THEN Return(resultText)
    ELSE IF \E k \in DOMAIN DailySeries : Nullish(Get(daily, DailySeries[k]))
         THEN LET k == CHOOSE k \in DOMAIN DailySeries :
                          /\ Nullish(Get(daily, DailySeries[k]))
                          /\ \A j \in 1 .. k - 1 : ~Nullish(Get(daily, DailySeries[j]))
              IN  Throw(typeError(Get(daily, DailySeries[k]), NatToString(i)))
    ELSE forecastLoop(daily, forecastDays, i + 1, resultText \o forecastBlock(daily, i))

\* the try block of get-weather from the settling of its fetch, lines
\* 260-291; the texts are glossed from the Korean, the emojis written (pin),
\* (thermometer) and (calendar)
getWeatherTry(in, outcome) ==
    IF outcome.kind = "rejected" THEN Throw(outcome.error)
    ELSE IF ~ok(outcome) THEN Throw(httpError(outcome))
    ELSE IF json(outcome).type = "throw" THEN json(outcome)
    ELSE LET data == json(outcome).value
             current == Get(data, "current_weather")
             daily == Get(data, "daily")
             head ==
                 <<"(pin) Location: latitude ", NumberToString(in.latitude.num),
                   ", longitude ", NumberToString(in.longitude.num), "\n\n",
                   "(thermometer) Current weather:\n",
                   "  Temperature: ", JSToString(Get(current, "temperature")), "(deg)C\n",
                   "  Weather: ", getWeatherDescription(Get(current, "weathercode")), "\n",
                   "  Wind speed: ", JSToString(Get(current, "windspeed")), " km/h\n\n",
                   "(calendar) ", NumberToString(in.forecastDays.num), "-day forecast:\n">>
             looped == forecastLoop(daily, in.forecastDays.num, 0, head)
         IN  IF Nullish(data) THEN Throw(typeError(data, "current_weather"))
             ELSE IF Nullish(current) THEN Throw(typeError(current, "temperature"))
             ELSE IF looped.type = "throw" THEN looped
             ELSE Return(createTextResponse(looped.value))

\* the catch block of get-weather, lines 292-296, glossed from the Korean
getWeatherCatch(error) ==
    Return(createTextResponse(
        <<"Error: a problem occurred while fetching the weather. ", errorText(error)>>))

\* get-weather from its entry to its fetch, lines 250-260
getWeatherStart(in) == Await(getWeatherRequest(in))

\* get-weather without its catch block
getWeatherNoCatch(in, outcome) == getWeatherTry(in, outcome)

\* get-weather from the settling of its fetch to its end
getWeather(in, outcome) ==
    LET tried == getWeatherTry(in, outcome)
    IN  IF tried.type = "throw" THEN getWeatherCatch(tried.error) ELSE tried

\* the base64 alphabet
Base64Chars ==
    <<"A", "B", "C", "D", "E", "F", "G", "H", "I", "J", "K", "L", "M", "N", "O", "P",
      "Q", "R", "S", "T", "U", "V", "W", "X", "Y", "Z", "a", "b", "c", "d", "e", "f",
      "g", "h", "i", "j", "k", "l", "m", "n", "o", "p", "q", "r", "s", "t", "u", "v",
      "w", "x", "y", "z", "0", "1", "2", "3", "4", "5", "6", "7", "8", "9", "+", "/">>

B64(n) == Base64Chars[n + 1]

\* Buffer.from(arrayBuffer).toString('base64')
RECURSIVE toBase64(_)
toBase64(bytes) ==
    CASE Len(bytes) = 0 -> ""
      [] Len(bytes) = 1 ->
            B64(bytes[1] \div 4) \o B64((bytes[1] % 4) * 16) \o "=="
      [] Len(bytes) = 2 ->
            B64(bytes[1] \div 4) \o B64((bytes[1] % 4) * 16 + bytes[2] \div 16)
            \o B64((bytes[2] % 16) * 4) \o "="
      [] OTHER ->
            B64(bytes[1] \div 4) \o B64((bytes[1] % 4) * 16 + bytes[2] \div 16)
            \o B64((bytes[2] % 16) * 4 + bytes[3] \div 64) \o B64(bytes[3] % 64)
            \o toBase64(Drop(bytes, 3))

\* lines 317-322
textToImageRequest(in) ==
    [kind |-> "textToImage",
     provider |-> "auto",
     model |-> "black-forest-labs/FLUX.1-schnell",
     inputs |-> in.prompt,
     parameters |-> [num_inference_steps |-> 5]]

\* line 313, glossed from the Korean
MissingTokenText ==
    <<"Error: the Hugging Face API token is not set. Set hfToken of configSchema or the HF_TOKEN environment variable.">>

\* the catch block of generate-image, lines 340-344, glossed from the Korean
generateImageCatch(error) ==
    Return(createTextResponse(
        <<"Error: a problem occurred while generating the image. ", errorText(error)>>))

\* generate-image without the check of its client
generateImageStartUnchecked(client, in) == Await(textToImageRequest(in))

\* generate-image from its entry to its inference call, lines 312-322
generateImageStart(client, in) ==
    IF ~Truthy(client) THEN Return(createTextResponse(MissingTokenText))
    ELSE Await(textToImageRequest(in))

\* the try block of generate-image from the settling of its inference call,
\* lines 317-339
generateImageTry(in, outcome) ==
    IF outcome.kind = "rejected" THEN Throw(outcome.error)
    ELSE LET image == outcome.value
         IN  IF image.t # "blob"
             THEN Throw(Error("TypeError", "image.arrayBuffer is not a function"))
             ELSE IF ~image.readable
             THEN Throw(Error("Error", "The blob could not be read"))
             ELSE Return(imageResponse(toBase64(image.bytes)))

\* generate-image from the settling of its inference call to its end
generateImage(in, outcome) ==
    LET tried == generateImageTry(in, outcome)
    IN  IF tried.type = "throw" THEN generateImageCatch(tried.error) ELSE tried

-----------------------------------------------------------------------------
(* The code-review prompt and the server-info resource.                     *)

SERVER_NAME == "mcp-server-251215"
SERVER_VERSION == "1.0.0"

codeReviewArgsSchema(raw) ==
    LET code == Get(raw, "code")
        language == Get(raw, "language")
        focus == Get(raw, "focus")
    IN  IF ~zString(code) THEN Invalid("code")
        ELSE IF language.t # "undefined" /\ ~zString(language) THEN Invalid("language")
        ELSE IF focus.t # "undefined" /\ ~zString(focus) THEN Invalid("focus")
        ELSE Valid([code |-> code, language |-> language, focus |-> focus])

\* lines 366-414; the Korean template is glossed, its six numbered sections
\* (lines 377-401) standing as one piece
codeReview(in) ==
    LET lang == IF Truthy(in.language) THEN JSToString(in.language) ELSE "code"
        focusArea ==
            IF Truthy(in.focus)
            THEN <<"\n\nPlease focus the review on: ", JSToString(in.focus)>>
            ELSE <<"">>
        promptTemplate ==
            <<"Please review the following ", lang, " code:\n\n(fence)",
              IF Truthy(in.language) THEN JSToString(in.language) ELSE "",
              "\n", JSToString(in.code), "\n(fence)\n">>
            \o focusArea
            \o <<"\n\nPlease give a comprehensive code review covering: 1. quality 2. bugs 3. performance 4. security 5. suggestions 6. best practices">>
    IN  [messages |-> <<[role |-> "user",
                         content |-> [type |-> "text", text |-> promptTemplate]]>>]

\* new Date().toISOString() for the instants of 2025-12-15
toISOString(now) == "2025-12-15T" \o Pad2(now % 24) \o ":00:00.000Z"

\* the catalog as it stood before generate-image was registered
serverInfoObjectStale(now, uptime) ==
    LET tool(name, description) ==
            JObj(<<P("name", JStr(<<name>>)), P("description", JStr(<<description>>))>>)
    IN  JObj(<<
          P("server", JObj(<<P("name", JStr(<<SERVER_NAME>>)),
                             P("version", JStr(<<SERVER_VERSION>>)),
                             P("timestamp", JStr(<<toISOString(now)>>)),
                             P("uptime", JNum(uptime))>>)),
          P("tools", JArr(<<tool("greet", "returns a greeting"),
                            tool("calculator", "four arithmetic operations"),
                            tool("get-time", "current time by time zone"),
                            tool("geocode", "address to coordinates"),
                            tool("get-weather", "weather information")>>)),
          P("totalTools", JNum(IntNum(5)))>>)

\* the object literal of lines 427-443; the descriptions are glossed from
\* the Korean
serverInfoObject(now, uptime) ==
    LET tool(name, description) ==
            JObj(<<P("name", JStr(<<name>>)), P("description", JStr(<<description>>))>>)
    IN  JObj(<<
          P("server", JObj(<<P("name", JStr(<<SERVER_NAME>>)),
                             P("version", JStr(<<SERVER_VERSION>>)),
                             P("timestamp", JStr(<<toISOString(now)>>)),
                             P("uptime", JNum(uptime))>>)),
          P("tools", JArr(<<tool("greet", "returns a greeting"),
                            tool("calculator", "four arithmetic operations"),
                            tool("get-time", "current time by time zone"),
                            tool("geocode", "address to coordinates"),
                            tool("get-weather", "weather information"),
                            tool("generate-image", "AI image generation")>>)),
          P("totalTools", JNum(IntNum(6)))>>)

Quote(s) == "\"" \o s \o "\""

\* JSON.stringify, as the sequence of the tokens of its output (the white
\* space of the indentation left out)
RECURSIVE stringify(_)
RECURSIVE stringifyItems(_)
RECURSIVE stringifyProps(_)
stringifyItems(items) ==
    IF items = <<>> THEN <<>>
    ELSE stringify(Head(items))
         \o (IF Tail(items) = <<>> THEN <<>> ELSE <<",">> \o stringifyItems(Tail(items)))
stringifyProps(props) ==
    IF props = <<>> THEN <<>>
    ELSE <<Quote(Head(props).k), ":">> \o stringify(Head(props).v)
         \o (IF Tail(props) = <<>> THEN <<>> ELSE <<",">> \o stringifyProps(Tail(props)))
stringify(v) ==
    CASE v.t = "string" -> <<Quote(Join(v.chars))>>
      [] v.t = "number" ->
            <<IF v.num.nan \/ v.num.q = 0 THEN "null" ELSE NumberToString(v.num)>>
      [] v.t = "array" -> <<"[">> \o stringifyItems(v.items) \o <<"]">>
      [] v.t = "object" -> <<"{">> \o stringifyProps(v.props) \o <<"}">>
      [] OTHER -> <<"null">>

\* the supplier of server-info, lines 426-454
serverInfo(now, uptime) ==
    [contents |-> <<[uri |-> "server://info",
                     mimeType |-> "application/json",
                     text |-> stringify(serverInfoObject(now, uptime))]>>]

-----------------------------------------------------------------------------
(* The server: construction and the dispatch of one invocation at a time.   *)
(* Invocations share no mutable state, so their interleavings add nothing.  *)

\* config?.hfToken || process.env.HF_TOKEN
resolveToken(configToken, envToken) ==
    IF Truthy(configToken) THEN configToken ELSE envToken

\* hfToken ? new InferenceClient(hfToken) : null
newClient(token) ==
    IF Truthy(token) THEN [t |-> "object", props |-> <<P("accessToken", token)>>]
    ELSE JNull

\* the names of the six registerTool calls, in source order
registeredTools ==
    <<"greet", "calculator", "get-time", "geocode", "get-weather", "generate-image">>

NoRequest == [kind |-> "none"]
NoOutcome == [kind |-> "none"]
NoInput == [none |-> TRUE]

TokenValues == {Undefined, JStr(<<>>), JStr(<<"hf_token">>)}

Init ==
    /\ \E configToken \in TokenValues, envToken \in TokenValues :
          /\ config = JObj(<<P("hfToken", configToken)>>)
          /\ env = JObj(<<P("HF_TOKEN", envToken)>>)
          /\ hfToken = resolveToken(configToken, envToken)
          /\ hfClient = newClient(resolveToken(configToken, envToken))
    /\ tools = registeredTools
    /\ pc = "idle"
    /\ op = "none"
    /\ args = JObj(<<>>)
    /\ input = NoInput
    /\ entered = FALSE
    /\ outbound = 0
    /\ request = NoRequest
    /\ settled = NoOutcome
    /\ responses = <<>>
    /\ escaped = FALSE

\* the host receives a call: the per-invocation state starts afresh
Begin(name, raw) ==
    /\ pc = "idle"
    /\ name \in Range(tools)
    /\ op' = name
    /\ args' = raw
    /\ UNCHANGED <<config, env, hfToken, hfClient, tools>>

\* the Schema Validator rejects the arguments: the handler is not called
Reject ==
    /\ pc' = "rejected"
    /\ input' = NoInput
    /\ entered' = FALSE
    /\ outbound' = 0
    /\ request' = NoRequest
    /\ settled' = NoOutcome
    /\ responses' = <<>>
    /\ escaped' = FALSE

\* the handler ends: its promise resolves with a value or rejects
Settle(completion, sofar) ==
    IF completion.type = "return"
    THEN /\ pc' = "returned"
         /\ responses' = Append(sofar, completion.value)
         /\ escaped' = FALSE
    ELSE /\ pc' = "threw"
         /\ responses' = sofar
         /\ escaped' = TRUE

\* the handler is called with the validated input and runs to its first
\* await, or to its end when it reaches none
Run(parsed, step) ==
    IF ~parsed.ok THEN Reject
    ELSE /\ input' = parsed.value
         /\ entered' = TRUE
         /\ settled' = NoOutcome
         /\ IF step.type = "await"
            THEN /\ pc' = "awaiting"
                 /\ outbound' = 1
                 /\ request' = step.request
                 /\ responses' = <<>>
                 /\ escaped' = FALSE
            ELSE /\ outbound' = 0
                 /\ request' = NoRequest
                 /\ Settle(step, <<>>)

\* the outbound call settles and the handler runs on from its await
Resume(outcome, step) ==
    /\ settled' = outcome
    /\ IF step.type = "await"
       THEN /\ outbound' = outbound + 1
            /\ request' = step.request
            /\ UNCHANGED <<pc, responses, escaped>>
       ELSE /\ Settle(step, responses)
            /\ UNCHANGED <<outbound, request>>
    /\ UNCHANGED <<config, env, hfToken, hfClient, tools, op, args, input, entered>>

Str(s) == JStr(<<s>>)
Number(n) == JNum(IntNum(n))

\* raw values of a field: absent, or one of the given values
Field(key, values) == {<<>>} \cup {<<P(key, v)>> : v \in values}

GreetNames == {JStr(<<>>), Str("Kim"), JStr(<<"a", "\n", "b">>), Str("<b>x</b>"), Number(1)}
GreetLanguages == {Str("ko"), Str("en"), Str("fr"), JNull, Number(1)}

CallGreet ==
    \E name \in Field("name", GreetNames), language \in Field("language", GreetLanguages) :
        LET raw == JObj(name \o language)
            parsed == greetInputSchema(raw)
        IN  /\ Begin("greet", raw)
            /\ Run(parsed, IF parsed.ok THEN Return(greet(parsed.value)) ELSE parsed)

Operands == {Number(n) : n \in -MaxNum .. MaxNum} \cup {Str("1"), JNull}
Operators == {Str("+"), Str("-"), Str("*"), Str("/"), Str("%"), Number(1)}

CallCalculator ==
    \E num1 \in Field("num1", Operands), num2 \in Field("num2", Operands),
       operator \in Field("operator", Operators) :
        LET raw == JObj(num1 \o num2 \o operator)
            parsed == calculatorInputSchema(raw)
        IN  /\ Begin("calculator", raw)
            /\ Run(parsed, IF parsed.ok THEN Return(calculator(parsed.value)) ELSE parsed)

TimeZones == {Str("Asia/Seoul"), Str("UTC"), Str("America/New_York"),
              Str("Mars/Phobos"), JStr(<<>>), Number(9)}

CallGetTime ==
    \E timezone \in Field("timezone", TimeZones), now \in 0 .. MaxClock :
        LET raw == JObj(timezone)
            parsed == getTimeInputSchema(raw)
        IN  /\ Begin("get-time", raw)
            /\ Run(parsed, IF parsed.ok THEN getTime(parsed.value, now) ELSE parsed)

\* how a fetch may settle: the promise rejects, or resolves with a response
\* of some status whose body parses as JSON or does not
FetchOutcomes(bodies) ==
    {[kind |-> "rejected", error |-> Error("TypeError", "fetch failed")],
     [kind |-> "rejected", error |-> NonError(Str("aborted"))]}
    \cup {[kind |-> "response", status |-> st, body |-> [parses |-> FALSE]] :
             st \in {200, 404, 500}}
    \cup {[kind |-> "response", status |-> 429,
           body |-> [parses |-> TRUE, json |-> JObj(<<P("error", Str("rate limited"))>>)]]}
    \cup {[kind |-> "response", status |-> 200, body |-> [parses |-> TRUE, json |-> b]] :
             b \in bodies}

Addresses == {Str("Seoul"), JStr(<<>>), JStr(<<"New", " ", "York">>),
              JStr(<<LoneSurrogate>>), Number(5)}

CallGeocode ==
    \E address \in Field("address", Addresses) :
        LET raw == JObj(address)
            parsed == geocodeInputSchema(raw)
        IN  /\ Begin("geocode", raw)
            /\ Run(parsed, IF parsed.ok THEN geocodeStart(parsed.value) ELSE parsed)

Place(lat, lon, rest) == JObj(<<P("lat", lat), P("lon", lon)>> \o rest)

\* bodies of the geocoding service: results, and shapes it does not document
GeocodeBodies ==
    {JNull, JObj(<<P("error", Str("Unable to geocode"))>>), JArr(<<>>),
     JArr(<<JNull>>), JArr(<<JObj(<<>>)>>),
     JArr(<<Place(JStr(<<"3", "7", ".", "5", "7">>), JStr(<<"1", "2", "6", ".", "9", "8">>),
                  <<P("display_name", Str("Seoul, South Korea"))>>)>>),
     JArr(<<Place(JStr(<<"-", "3", "3", ".", "5">>), JStr(<<"1", "5", "1">>), <<>>)>>),
     JArr(<<Place(JStr(<<"n", "/", "a">>), JStr(<<>>), <<P("display_name", JStr(<<>>))>>)>>),
     JArr(<<Place(Number(40), JNum(Num(-297, 4)), <<P("display_name", Str("New York"))>>),
            Place(Number(1), Number(2), <<>>)>>)}

GeocodeSettle ==
    /\ pc = "awaiting"
    /\ op = "geocode"
    /\ \E outcome \in FetchOutcomes(GeocodeBodies) :
          Resume(outcome, geocode(input, outcome))

\* raw coordinates: the four corners of the valid ranges are split over two
\* pairs, and each invalid value comes with a valid partner
Coordinates ==
    {<<P("latitude", Number(-90)), P("longitude", Number(180))>>,
     <<P("latitude", Number(90)), P("longitude", Number(-180))>>,
     <<P("latitude", Number(-91)), P("longitude", Number(0))>>,
     <<P("latitude", Number(91)), P("longitude", Number(0))>>,
     <<P("latitude", Number(0)), P("longitude", Number(-181))>>,
     <<P("latitude", Number(0)), P("longitude", Number(181))>>,
     <<P("latitude", Str("37")), P("longitude", Number(127))>>,
     <<P("latitude", Number(37)), P("longitude", JNull)>>,
     <<P("longitude", Number(127))>>,
     <<P("latitude", Number(37))>>}
ForecastDays == {Number(n) : n \in 0 .. 17} \cup {JNum(Num(3, 2)), Str("7"), JNull}

CallGetWeather ==
    \E coordinates \in Coordinates,
       forecastDays \in Field("forecastDays", ForecastDays) :
        LET raw == JObj(coordinates \o forecastDays)
            parsed == getWeatherInputSchema(raw)
        IN  /\ Begin("get-weather", raw)
            /\ Run(parsed, IF parsed.ok THEN getWeatherStart(parsed.value) ELSE parsed)

\* the codes of the days of a forecast, by index
DayCodes == <<0, 3, 4, 61, 100, 99>>
DayCode(i) == DayCodes[(i % Len(DayCodes)) + 1]

\* the array of the first n values of f, a function of the index from 0
Series(n, f) == JArr([i \in 1 .. n |-> f[i - 1]])

CurrentWeather(code) ==
    JObj(<<P("temperature", JNum(Num(7, 2))), P("windspeed", Number(12)),
           P("weathercode", code)>>)

\* a daily forecast whose time series has n entries and whose other series
\* have m
Daily(n, m) ==
    JObj(<<P("time", Series(n, [i \in 0 .. n |-> JStr(<<"2025-12-", Pad2(15 + i)>>)])),
           P("temperature_2m_max", Series(m, [i \in 0 .. m |-> Number(5 + i)])),
           P("temperature_2m_min", Series(m, [i \in 0 .. m |-> Number(-i)])),
           P("precipitation_sum", Series(m, [i \in 0 .. m |-> JNum(Num(i, 2))])),
           P("weather_code", Series(m, [i \in 0 .. m |-> Number(DayCode(i))]))>>)

Forecast(current, daily) == JObj(<<P("current_weather", current), P("daily", daily)>>)

\* bodies of the forecast service: forecasts of 0 .. MaxDays days, every
\* current code of -1 .. MaxCode, and shapes the service does not document
WeatherBodies ==
    {Forecast(CurrentWeather(Number(0)), Daily(n, n)) : n \in 0 .. MaxDays}
    \cup {Forecast(CurrentWeather(Number(c)), Daily(1, 1)) : c \in -1 .. MaxCode}
    \cup {JNull,
          JObj(<<P("error", Str("true")), P("reason", Str("out of range"))>>),
          JObj(<<P("current_weather", CurrentWeather(Number(1)))>>),
          JObj(<<P("daily", Daily(2, 2))>>),
          Forecast(JNull, Daily(2, 2)),
          Forecast(CurrentWeather(Number(1)), JObj(<<>>)),
          Forecast(CurrentWeather(Number(1)),
                   JObj(<<P("time", Series(2, [i \in 0 .. 2 |-> JStr(<<"2025-12-", Pad2(15 + i)>>)]))>>)),
          Forecast(CurrentWeather(Number(1)), JObj(<<P("time", JObj(<<>>))>>)),
          Forecast(JObj(<<>>), Daily(2, 1)),
          Forecast(CurrentWeather(Str("3")), Daily(0, 0))}

GetWeatherSettle ==
    /\ pc = "awaiting"
    /\ op = "get-weather"
    /\ \E outcome \in FetchOutcomes(WeatherBodies) :
          Resume(outcome, getWeather(input, outcome))

Prompts == {Str("Astronaut riding a horse"), JStr(<<>>), JNull}

CallGenerateImage ==
    \E prompt \in Field("prompt", Prompts) :
        LET raw == JObj(prompt)
            parsed == generateImageInputSchema(raw)
        IN  /\ Begin("generate-image", raw)
            /\ Run(parsed, IF parsed.ok THEN generateImageStart(hfClient, parsed.value)
                           ELSE parsed)

Blob(bytes, readable) == [t |-> "blob", bytes |-> bytes, readable |-> readable]

\* how textToImage may settle
InferenceOutcomes ==
    {[kind |-> "rejected", error |-> Error("Error", "Invalid credentials")],
     [kind |-> "rejected", error |-> NonError(Str("quota exceeded"))],
     [kind |-> "resolved", value |-> Undefined],
     [kind |-> "resolved", value |-> Blob(<<>>, FALSE)]}
    \cup {[kind |-> "resolved", value |-> Blob(bytes, TRUE)] :
             bytes \in {<<>>, <<255>>, <<137, 80>>, <<137, 80, 78>>, <<137, 80, 78, 71>>}}

GenerateImageSettle ==
    /\ pc = "awaiting"
    /\ op = "generate-image"
    /\ \E outcome \in InferenceOutcomes :
          Resume(outcome, generateImage(input, outcome))

\* a prompt or a resource is looked up in its own table, not among the tools
BeginOther(name, raw) ==
    /\ pc = "idle"
    /\ op' = name
    /\ args' = raw
    /\ UNCHANGED <<config, env, hfToken, hfClient, tools>>

Hints == {Str("python"), JStr(<<>>), Number(3)}

GetCodeReviewPrompt ==
    \E code \in Field("code", {Str("x = 1"), JStr(<<>>)}),
       language \in Field("language", Hints), focus \in Field("focus", Hints) :
        LET raw == JObj(code \o language \o focus)
            parsed == codeReviewArgsSchema(raw)
        IN  /\ BeginOther("code-review", raw)
            /\ Run(parsed, IF parsed.ok THEN Return(codeReview(parsed.value)) ELSE parsed)

ReadServerInfo ==
    \E now \in 0 .. MaxClock, uptime \in {Num(1, 2), IntNum(3)} :
        /\ BeginOther("server-info", JObj(<<>>))
        /\ Run(Valid(NoInput), Return(serverInfo(now, uptime)))

\* the host has sent the response (or the validation error) of the invocation
Complete ==
    /\ pc \in {"returned", "rejected", "threw"}
    /\ pc' = "idle"
    /\ op' = "none"
    /\ args' = JObj(<<>>)
    /\ input' = NoInput
    /\ entered' = FALSE
    /\ outbound' = 0
    /\ request' = NoRequest
    /\ settled' = NoOutcome
    /\ responses' = <<>>
    /\ escaped' = FALSE
    /\ UNCHANGED <<config, env, hfToken, hfClient, tools>>

Next ==
    \/ CallGreet
    \/ CallCalculator
    \/ CallGetTime
    \/ CallGeocode
    \/ GeocodeSettle
    \/ CallGetWeather
    \/ GetWeatherSettle
    \/ CallGenerateImage
    \/ GenerateImageSettle
    \/ GetCodeReviewPrompt
    \/ ReadServerInfo
    \/ Complete

Spec == Init /\ [][Next]_vars

-----------------------------------------------------------------------------
(* Notions the properties below are stated in.                              *)

ToolNames == {"greet", "calculator", "get-time", "geocode", "get-weather", "generate-image"}

Returned(name) == op = name /\ pc = "returned"

\* the envelope the invocation returned
Envelope == responses[1]

IsTextEnvelope(e) ==
    /\ DOMAIN e = {"content", "structuredContent"}
    /\ Len(e.content) = 1
    /\ e.content[1].type = "text"

TextOf(e) == e.content[1].text

\* how the outbound call of the invocation failed, if it did
Rejected == settled.kind = "rejected"
NonOK == settled.kind = "response" /\ settled.status \notin 200 .. 299
Unparseable == settled.kind = "response" /\ settled.status \in 200 .. 299
                /\ ~settled.body.parses
OutboundFailed == Rejected \/ NonOK \/ Unparseable

\* the parsed body of a successful response
Parsed == settled.kind = "response" /\ settled.status \in 200 .. 299 /\ settled.body.parses
Body == settled.body.json

\* the message of the failure of the outbound call
FailureMessage ==
    CASE Rejected /\ settled.error.isError -> settled.error.message
      [] Rejected /\ ~settled.error.isError -> Join(settled.error.value.chars)
      [] NonOK -> "HTTP error! status: " \o NatToString(settled.status)
      [] OTHER -> "Unexpected token < in JSON at position 0"

\* the text each tool puts before the message of a failure
FailurePrefix ==
    CASE op = "geocode" -> "Error: a problem occurred while looking up the address. "
      [] op = "get-weather" -> "Error: a problem occurred while fetching the weather. "
      [] OTHER -> "Error: a problem occurred while generating the image. "

Count(seq, x) == Cardinality({i \in DOMAIN seq : seq[i] = x})

-----------------------------------------------------------------------------
(* C1.  Every invocation of a tool handler with schema-valid input whose    *)
(* outbound call, if any, settles ends by returning exactly one envelope:   *)
(* no exception leaves a handler, nothing is returned before the end, and   *)
(* an invocation that is past its await has returned.  When the outbound    *)
(* call failed (rejection, non-OK status, unparseable body), or get-time    *)
(* was given an invalid time zone, the envelope is a text envelope holding  *)
(* the tool's failure text and the message of the failure.                  *)
C1_HandlersReturnOneEnvelope ==
    /\ ~escaped
    /\ pc # "threw"
    /\ pc = "returned" => Len(responses) = 1
    /\ pc \in {"idle", "awaiting", "rejected"} => responses = <<>>
    /\ entered /\ pc # "awaiting" => pc = "returned"
    /\ settled # NoOutcome => pc = "returned"
    /\ op \in ToolNames /\ pc = "returned" /\ OutboundFailed =>
          /\ IsTextEnvelope(Envelope)
          /\ TextOf(Envelope) = <<FailurePrefix, FailureMessage>>
    /\ Returned("get-time") /\ Join(input.timezone.chars) \notin DOMAIN TimeZoneOffset =>
          /\ IsTextEnvelope(Envelope)
          /\ TextOf(Envelope) =
                <<"Error: invalid time zone. (", Join(input.timezone.chars), ")">>

\* get-weather has returned after its fetch was rejected
C1_Witness == Returned("get-weather") /\ Rejected /\ Len(responses) = 1

-----------------------------------------------------------------------------
NonEmptyString(v) == v.t = "string" /\ v.chars # <<>>

NoCredential ==
    /\ ~NonEmptyString(Get(config, "hfToken"))
    /\ ~NonEmptyString(Get(env, "HF_TOKEN"))

(* C2.  When the server was constructed with no credential (neither         *)
(* config.hfToken nor HF_TOKEN is a non-empty string), every generate-image *)
(* invocation that entered its handler, at any point of any run, has        *)
(* returned a text-only envelope holding the credential-missing message and *)
(* has issued no outbound call.                                             *)
C2_NoCredentialNoInference ==
    NoCredential /\ op = "generate-image" /\ entered =>
        /\ pc = "returned"
        /\ outbound = 0
        /\ request = NoRequest
        /\ Len(responses) = 1
        /\ IsTextEnvelope(Envelope)
        /\ TextOf(Envelope) =
              <<"Error: the Hugging Face API token is not set. Set hfToken of configSchema or the HF_TOKEN environment variable.">>

\* generate-image has returned on a server whose two token sources are both
\* present and empty
C2_Witness ==
    /\ NoCredential
    /\ Get(config, "hfToken").t = "string"
    /\ Returned("generate-image")

-----------------------------------------------------------------------------
(* C3.  No invocation issues more than one outbound call: greet,            *)
(* calculator, get-time, code-review and server-info issue none, and        *)
(* geocode, get-weather and generate-image at most one.  After an outbound  *)
(* call failed the invocation has ended with that single call behind it,    *)
(* no call in flight, and one text envelope naming the failure once.        *)
C3_AtMostOneOutboundCall ==
    /\ outbound <= 1
    /\ op \in {"greet", "calculator", "get-time", "code-review", "server-info"} =>
          outbound = 0 /\ request = NoRequest
    /\ pc = "awaiting" => outbound = 1 /\ settled = NoOutcome
    /\ OutboundFailed =>
          /\ pc = "returned"
          /\ outbound = 1
          /\ Len(responses) = 1
          /\ IsTextEnvelope(Envelope)
          /\ Count(TextOf(Envelope), FailureMessage) = 1

\* geocode has returned after a response of a non-OK status
C3_Witness == Returned("geocode") /\ NonOK /\ outbound = 1

-----------------------------------------------------------------------------
Arg(key) == Get(args, key)
Present(key) == HasOwn(args, key)
IsString(v) == v.t = "string"
IsNumber(v) == v.t = "number" /\ ~v.num.nan
Whole(v) == v.num.q = 1
\* lo <= v <= hi for a number v = p/q, q > 0
Within(v, lo, hi) == lo * v.num.q <= v.num.p /\ v.num.p <= hi * v.num.q
OneOf(v, options) == IsString(v) /\ Join(v.chars) \in options

BreaksSchema ==
    CASE op = "greet" ->
            \/ ~IsString(Arg("name"))
            \/ Present("language") /\ ~OneOf(Arg("language"), {"ko", "en"})
      [] op = "calculator" ->
            \/ ~IsNumber(Arg("num1"))
            \/ ~IsNumber(Arg("num2"))
            \/ ~OneOf(Arg("operator"), {"+", "-", "*", "/"})
      [] op = "get-time" -> ~IsString(Arg("timezone"))
      [] op = "geocode" -> ~IsString(Arg("address"))
      [] op = "get-weather" ->
            \/ ~IsNumber(Arg("latitude")) \/ ~Within(Arg("latitude"), -90, 90)
            \/ ~IsNumber(Arg("longitude")) \/ ~Within(Arg("longitude"), -180, 180)
            \/ /\ Present("forecastDays")
               /\ \/ ~IsNumber(Arg("forecastDays"))
                  \/ ~Whole(Arg("forecastDays"))
                  \/ ~Within(Arg("forecastDays"), 1, 16)
      [] op = "generate-image" -> ~IsString(Arg("prompt"))
      [] OTHER -> FALSE

(* C4.  An invocation whose raw arguments break the declared input schema   *)
(* of its tool (a wrong type, a latitude outside [-90,90], a longitude      *)
(* outside [-180,180], a forecastDays outside [1,16] or not an integer, an  *)
(* operator or a language outside its enum) is rejected as a whole: the     *)
(* handler is not entered, nothing is returned and no outbound call is      *)
(* made.  A present but invalid language or forecastDays is rejected too;   *)
(* the default stands in only for an absent field.  The boundary values     *)
(* -90, 90, -180, 180, 1 and 16 are accepted.                               *)
C4_InvalidArgumentsRejected ==
    op \in ToolNames =>
        /\ BreaksSchema =>
              /\ pc = "rejected"
              /\ ~entered
              /\ input = NoInput
              /\ outbound = 0
              /\ request = NoRequest
              /\ responses = <<>>
        /\ ~BreaksSchema => entered
        /\ op = "greet" /\ entered =>
              input.language = IF Present("language") THEN Arg("language")
                               ELSE JStr(<<"en">>)
        /\ op = "get-weather" /\ entered =>
              input.forecastDays = IF Present("forecastDays") THEN Arg("forecastDays")
                                   ELSE JNum(IntNum(7))

\* get-weather called with forecastDays 17 and otherwise valid arguments
C4_Witness ==
    /\ op = "get-weather"
    /\ pc = "rejected"
    /\ Arg("latitude") = JNum(IntNum(90))
    /\ Arg("longitude") = JNum(IntNum(-180))
    /\ Arg("forecastDays") = JNum(IntNum(17))

-----------------------------------------------------------------------------
Quotient(a, b) ==
    LET g == GCD(Abs(a), Abs(b))
        s == IF b < 0 THEN -1 ELSE 1
    IN  [nan |-> FALSE, p |-> (s * a) \div g, q |-> (s * b) \div g]

Arithmetic(a, sign, b) ==
    CASE sign = "+" -> [nan |-> FALSE, p |-> a + b, q |-> 1]
      [] sign = "-" -> [nan |-> FALSE, p |-> a - b, q |-> 1]
      [] sign = "*" -> [nan |-> FALSE, p |-> a * b, q |-> 1]
      [] sign = "/" -> Quotient(a, b)

(* C5.  For all num1, num2 and every operator of + - * /, calculator        *)
(* returns the text "num1 OP num2 = r" with r the result of num1 OP num2,   *)
(* except that for / with num2 = 0 it returns exactly the zero-division     *)
(* error text (glossed), which holds no numeric result.                     *)
C5_CalculatorArithmetic ==
    Returned("calculator") =>
        LET a == Arg("num1").num.p
            b == Arg("num2").num.p
            sign == Join(Arg("operator").chars)
        IN  /\ IsTextEnvelope(Envelope)
            /\ IF sign = "/" /\ b = 0
               THEN TextOf(Envelope) = <<"Error: cannot divide by 0.">>
               ELSE TextOf(Envelope) =
                        <<NumberToString(Arg("num1").num), " " \o sign \o " ",
                          NumberToString(Arg("num2").num), " = ",
                          NumberToString(Arithmetic(a, sign, b))>>

\* calculator has returned for a division by zero
C5_Witness ==
    /\ Returned("calculator")
    /\ Join(Arg("operator").chars) = "/"
    /\ Arg("num1") = JNum(IntNum(MaxNum))
    /\ Arg("num2") = JNum(IntNum(0))

-----------------------------------------------------------------------------
LacksCoordinates(place) == Nullish(place) \/ ~HasOwn(place, "lat") \/ ~HasOwn(place, "lon")

UnexpectedShape ==
    /\ Parsed
    /\ \/ /\ op = "geocode"
          /\ \/ Body.t # "array"
             \/ Body.items = <<>>
             \/ LacksCoordinates(Body.items[1])
       \/ /\ op = "get-weather"
          /\ \/ Nullish(Get(Body, "current_weather"))
             \/ Nullish(Get(Body, "daily"))

ReportsFailure(text) ==
    \/ text[1] = FailurePrefix
    \/ op = "geocode" /\ text[1] = "Address not found: "

(* C6.  For geocode and get-weather, a response with a non-success status,  *)
(* a body that does not parse, or a parsed body of an unexpected shape      *)
(* (geocode: no array, an empty array, a first element without lat or lon;  *)
(* get-weather: no current_weather or no daily) yields a text envelope      *)
(* that reports a failure: the tool's error text or the not-found text.     *)
C6_UnexpectedResponsesReported ==
    op \in {"geocode", "get-weather"} /\ pc = "returned"
    /\ (NonOK \/ Unparseable \/ UnexpectedShape) =>
        /\ IsTextEnvelope(Envelope)
        /\ ReportsFailure(TextOf(Envelope))

-----------------------------------------------------------------------------
RequestedDays == IF Present("forecastDays") THEN Arg("forecastDays").num.p ELSE 7

\* the response is a forecast whose series all have the same length
FullForecast ==
    /\ Parsed
    /\ Body.t = "object"
    /\ Get(Body, "current_weather").t = "object"
    /\ Get(Body, "daily").t = "object"
    /\ Get(Get(Body, "daily"), "time").t = "array"
    /\ \A k \in DOMAIN DailySeries :
          /\ Get(Get(Body, "daily"), DailySeries[k]).t = "array"
          /\ Len(Get(Get(Body, "daily"), DailySeries[k]).items)
                = Len(Get(Get(Body, "daily"), "time").items)

SeriesLength == Len(Get(Get(Body, "daily"), "time").items)

Min(a, b) == IF a < b THEN a ELSE b

\* where the blocks of a forecast text begin: each block opens with a line
\* break, the date and ":\n", followed by the line of the highest temperature
BlockStarts(text) ==
    SelectSeq([i \in 1 .. Len(text) |-> i],
              LAMBDA i : text[i] = "  High: " /\ i > 3 /\ text[i - 1] = ":\n")

(* C7.  For every forecastDays in [1,16] (7 when the field is absent) and   *)
(* every successful response whose daily series have L >= 0 entries, the    *)
(* text get-weather returns holds exactly min(forecastDays, L) forecast     *)
(* blocks, the k-th of them for the k-th day of the series.                 *)
C7_ForecastBlockCount ==
    Returned("get-weather") /\ FullForecast =>
        LET text == TextOf(Envelope)
            starts == BlockStarts(text)
            blocks == Min(RequestedDays, SeriesLength)
        IN  /\ RequestedDays \in 1 .. 16
            /\ Len(starts) = blocks
            /\ Count(text, "  Precipitation: ") = blocks
            /\ \A k \in 1 .. blocks :
                  /\ text[starts[k] - 2] =
                        "12(month) " \o NatToString(14 + k) \o "(day) ("
                        \o Weekday[((k - 1) % 7) + 1] \o ")"
                  /\ text[starts[k] + 1] = NatToString(4 + k)

\* a forecast of more days than the 7 asked for by default
C7_Witness ==
    /\ Returned("get-weather")
    /\ FullForecast
    /\ ~Present("forecastDays")
    /\ SeriesLength > 7
    /\ Len(BlockStarts(TextOf(Envelope))) = 7

-----------------------------------------------------------------------------
CurrentCode == Get(Get(Body, "current_weather"), "weathercode")

Decimal(n) == IF n < 0 THEN "-" \o NatToString(-n) ELSE NatToString(n)

InTable(n) == \E i \in DOMAIN WEATHER_CODES.props : WEATHER_CODES.props[i].k = Decimal(n)

TableEntry(n) ==
    LET i == CHOOSE i \in DOMAIN WEATHER_CODES.props : WEATHER_CODES.props[i].k = Decimal(n)
    IN  Join(WEATHER_CODES.props[i].v.chars)

\* the piece of the text of get-weather that describes the current weather
CurrentDescription(text) == text[(CHOOSE i \in DOMAIN text : text[i] = "  Weather: ") + 1]

(* C8.  getWeatherDescription(n) is the description of the table for every  *)
(* integer code n the table holds, code 0 included, and exactly the label   *)
(* "code n" (glossed) for every integer code the table lacks; an unknown    *)
(* code makes nothing throw.                                                *)
C8_WeatherCodeDescription ==
    Returned("get-weather") /\ FullForecast
    /\ CurrentCode.t = "number" /\ CurrentCode.num.q = 1 =>
        LET n == CurrentCode.num.p
            shown == CurrentDescription(TextOf(Envelope))
        IN  /\ TextOf(Envelope)[1] # FailurePrefix
            /\ n = 0 => shown = "clear"
            /\ InTable(n) => shown = TableEntry(n) /\ shown # ""
            /\ ~InTable(n) => shown = "code " \o Decimal(n)

\* a current weather code one past the last code of the table
C8_Witness ==
    /\ Returned("get-weather")
    /\ FullForecast
    /\ CurrentCode = JNum(IntNum(100))
    /\ CurrentDescription(TextOf(Envelope)) = "code 100"

-----------------------------------------------------------------------------
IndexOf(seq, x) == CHOOSE i \in DOMAIN seq : seq[i] = x

\* the names of the catalog, read off the tokens between the keys "tools"
\* and "totalTools"
CatalogNames(tokens) ==
    LET from == IndexOf(tokens, Quote("tools"))
        upto == IndexOf(tokens, Quote("totalTools"))
        keys == SelectSeq([i \in 1 .. Len(tokens) |-> i],
                          LAMBDA i : from < i /\ i < upto /\ tokens[i] = Quote("name"))
    IN  [k \in 1 .. Len(keys) |-> tokens[keys[k] + 2]]

TotalTools(tokens) == tokens[IndexOf(tokens, Quote("totalTools")) + 2]

(* C9.  Whenever server-info is read, after any sequence of invocations,    *)
(* the tool catalog of its JSON text lists exactly the names of the tools   *)
(* registered: its length and totalTools both equal the number of           *)
(* registered tools, 6, and no name is missing, extra or repeated.          *)
C9_CatalogMatchesRegistry ==
    /\ Len(tools) = 6
    /\ Cardinality(Range(tools)) = 6
    /\ Range(tools) = ToolNames
    /\ Returned("server-info") =>
          LET tokens == responses[1].contents[1].text
              names == CatalogNames(tokens)
          IN  /\ Len(names) = Len(tools)
              /\ Range(names) = {Quote(tools[i]) : i \in DOMAIN tools}
              /\ Cardinality(Range(names)) = Len(names)
              /\ TotalTools(tokens) = NatToString(Len(tools))
              /\ TotalTools(tokens) = "6"

\* server-info has been read
C9_Witness ==
    /\ Returned("server-info")
    /\ Len(CatalogNames(responses[1].contents[1].text)) = 6

-----------------------------------------------------------------------------
ImageSucceeded ==
    /\ op = "generate-image"
    /\ settled.kind = "resolved"
    /\ settled.value.t = "blob"
    /\ settled.value.readable

(* C10.  Every text envelope a tool returns, on a success or an error       *)
(* path, carries exactly one text item in its content and exactly one in    *)
(* its structuredContent mirror, with the same text, whatever the input     *)
(* string (empty, holding line breaks or markup).  The envelope             *)
(* generate-image returns on success carries a single image item and has    *)
(* no structuredContent; no other envelope shape is returned.               *)
C10_EnvelopeShapes ==
    op \in ToolNames /\ pc = "returned" =>
        LET e == Envelope
        IN  IF ImageSucceeded
            THEN /\ DOMAIN e = {"content"}
                 /\ Len(e.content) = 1
                 /\ e.content[1].type = "image"
                 /\ e.content[1].mimeType = "image/png"
            ELSE /\ DOMAIN e = {"content", "structuredContent"}
                 /\ Len(e.content) = 1
                 /\ e.content[1].type = "text"
                 /\ DOMAIN e.structuredContent = {"content"}
                 /\ Len(e.structuredContent.content) = 1
                 /\ e.structuredContent.content[1].type = "text"
                 /\ e.structuredContent.content[1].text = e.content[1].text

\* greet has returned for a name holding a line break
C10_Witness ==
    /\ Returned("greet")
    /\ Arg("name") = JStr(<<"a", "\n", "b">>)
    /\ TextOf(Envelope)[2] = "a\nb"

=============================================================================
